---- MODULE Spec2Model ----
(***************************************************************************)
(* Model of TempratureMonitorSolarOvens.ino: a two-channel temperature     *)
(* logger that keeps up to maxReadings records in EEPROM.                  *)
(*                                                                         *)
(* The EEPROM is modelled byte by byte.  One action stands for one part of *)
(* a pass of loop(): the toggle-button part (lines 84-98), the sampling    *)
(* part (lines 101-182) and the load-button part (lines 185-287).  Each    *)
(* part is a no-op for suitable inputs, so a pass is a sequence of these   *)
(* steps.  millis() is not modelled: whether a sample is due and whether   *)
(* the load button has been held for eraseHoldTime are inputs of a step.   *)
(* Power may fail between steps and between the byte writes of a step.     *)
(* Each step records the EEPROM bytes it read or wrote and, for a replay,  *)
(* the statistics it printed.                                              *)
(*                                                                         *)
(* SpecTime models the clock as well: millis(), the blocking delay(500)    *)
(* after a button action, the two buttons as pins that the user presses    *)
(* and releases, and the order of the three parts within a pass of loop(). *)
(* A pass takes no time except for its delays, and a pass runs at every    *)
(* instant at which a button changes or to which the clock advances.       *)
(***************************************************************************)
EXTENDS Integers, Sequences, FiniteSets

\* ---------------------------------------------------------------- constants
maxReadings == 60
eepromStartAddress == 4
anomalyThreshold == 10
\* milliseconds
eraseHoldTime == 5000
\* delay(500) after a toggle press, an erase and a replay
debounceDelay == 500


HIGH == 1
LOW == 0

\* ------------------------------------------------------------------- bounds
\* EEPROM.length() of the device of Spec and SpecFilter, in bytes; the store
\* spans eepromStartAddress + maxReadings * 4 = 244 of them
EEPROMlength == 256
\* EEPROM.length() of the small device of SpecCapacity: it holds the count
\* and two records
SmallLength == 12
\* SpecTime: testDurationMinutes, which the source sets to 120 and asks the
\* user to adjust; 2 makes readDelay two seconds
testDurationMinutes == 2
\* SpecTime: loop() is not entered after this time
MaxTime == 4250
\* SpecHold: loop() is not entered after this time
MaxHoldTime == 5000
\* number of power failures in a behaviour
MaxPowerCycles == 1
\* a power failure during erase happens after at most this many byte writes
MaxEraseCut == 3
\* a sample falls due only when the slot it would fill is blank or is
\* one of the first MaxOverwrite slots
MaxOverwrite == 1
\* SpecFilter: besides, a sample falls due only while fewer records than this
\* are stored
MaxFilterIndex == 3
\* sessionAppends stops counting here
MaxCounted == 2

\* analogRead() pairs offered by the sensors in Spec: 0 is a sensor fault, the
\* others convert to 156 and 177 degrees
Readings == {<<0, 514>>, <<514, 514>>, <<389, 514>>}

\* analogRead() pairs offered in SpecFilter, none a sensor fault: they convert
\* to 156, 166 and 177 degrees
FilterReadings ==
    {<<514, 514>>, <<453, 514>>, <<389, 514>>, <<514, 453>>, <<514, 389>>}

\* analogRead() pairs offered in SpecReport, of a cold oven: they convert to
\* 3, -1, -6 and -14 degrees
ReportReadings == {<<1018, 1019>>, <<1019, 1019>>, <<1020, 1019>>, <<1021, 1020>>}

\* SpecCapacity: the devices, and the counts found at address 0 at first boot
\* (0xFFFF is a factory-fresh cell pair; 5 and 70 exceed what fits in 12 and
\* 256 bytes)
Capacities == {SmallLength, EEPROMlength}
LoadedCounts == {0, 5, 70, -1}

\* SpecTime: the amounts by which the clock advances between two passes
TimeSteps == {250}

\* SpecHold: the same, coarser, for presses of several seconds
HoldSteps == {500}

\* SpecTime, SpecHold: a faulty reading and two that differ by more than the
\* threshold
TimedReadings == {<<0, 514>>, <<514, 514>>, <<389, 389>>}

\* the byte writes of an append after which power may fail
AppendCuts == 1 .. 4

VARIABLES
    eeprom,           \* EEPROM cells: address -> byte
    readingIndex,     \* int readingIndex
    logging,          \* bool logging
    lastButtonState,  \* bool lastButtonState
    pressed,          \* buttonPressStartTime != 0
    eraseMode,        \* bool eraseMode
    diag,             \* what the last step printed: its diagnostic ("invalid" is
                      \* "Invalid EEPROM address.", printed by a replay that breaks off)
    candidate,        \* temperatureF1, temperatureF2 of the last step's sample, or << >>
    lines,            \* the record lines the last step printed
    report,           \* the statistics the last step printed: << >> or <<statistics>>
    touched,          \* the EEPROM byte addresses the last step (or setup) read or wrote
    length,           \* EEPROM.length()
    now,              \* millis()
    previousMillis,   \* unsigned long previousMillis
    buttonPressStartTime,  \* unsigned long buttonPressStartTime
    pc,               \* the part of loop() that runs next: "toggle", "sample" or "load"
    polled,           \* a pass has read both buttons since the clock or a pin last changed
    togglePin,        \* level of buttonTogglePin
    loadPin,          \* level of buttonLoadPin
    loadPhase,        \* history of the load button: "none", "down", "released" (not yet
                      \* seen by loop()), "done" (release seen)
    loadDownAt,       \* history: when the load button was last pressed
    loadUpAt,         \* history: when it was last released
    pressErases,      \* history: erases since the load button was last pressed, up to 2
    pressReplays,     \* history: replays since the load button was last pressed, up to 2
    lastSampleAt,     \* history: when the last sample was attempted, or -1
    prevSampleAt,     \* history: when the sample before that was attempted, or -1
    startedAt,        \* history: when logging was last started, or -1
    appended,         \* history: pairs stored since logging started or the store was erased
    known,            \* history: appended is known (a start or erase since boot)
    sessionAppends,   \* history: appends since logging started, up to MaxCounted
    powerCycles       \* power failures so far

\* the variables of the untimed steps
svars == <<eeprom, readingIndex, logging, lastButtonState, pressed, eraseMode,
           diag, candidate, lines, report, touched, length,
           appended, known, sessionAppends, powerCycles>>

\* the clock, the pins and their history
tvars == <<now, previousMillis, buttonPressStartTime, pc, polled, togglePin, loadPin,
           loadPhase, loadDownAt, loadUpAt, pressErases, pressReplays,
           lastSampleAt, prevSampleAt, startedAt>>

vars == <<svars, tvars>>

\* ------------------------------------------------------------ 16-bit values
abs(x) == IF x < 0 THEN -x ELSE x

\* two's complement int of the AVR from its two bytes, low byte first
Int16(lo, hi) == LET u == lo + 256 * hi IN IF u >= 32768 THEN u - 65536 ELSE u

\* a wider integer converted to the 16-bit int of the AVR
ToInt16(v) == LET u == v % 65536 IN IF u >= 32768 THEN u - 65536 ELSE u

\* faulty variant: the quotient is rounded down
FloorDiv(a, b) == a \div b

\* C integer division, which truncates towards zero; b > 0
TruncDiv(a, b) == IF a >= 0 THEN a \div b ELSE -((-a) \div b)

lowByte(v) == (v % 65536) % 256
highByte(v) == (v % 65536) \div 256

\* EEPROM.get(address, int)
EEPROMget(mem, address) == Int16(mem[address], mem[address + 1])

\* the byte writes of EEPROM.put(address, int), in order
PutWrites(address, v) == << <<address, lowByte(v)>>, <<address + 1, highByte(v)>> >>

\* mem after the first k writes of ws
RECURSIVE WriteBytes(_, _, _)
WriteBytes(mem, ws, k) ==
    IF k = 0 THEN mem
    ELSE LET m == WriteBytes(mem, ws, k - 1)
         IN [m EXCEPT ![ws[k][1]] = ws[k][2]]

\* EEPROM.put(address, int)
EEPROMput(mem, address, v) == WriteBytes(mem, PutWrites(address, v), 2)

\* ------------------------------------------------------------------ sensors
\* (int)((temperatureC * 9.0 / 5.0) + 32.0 + calibrationOffset) for the
\* analog values used here
temperatureF(analogValue) ==
    CASE analogValue = 389 -> 177
      [] analogValue = 453 -> 166
      [] analogValue = 514 -> 156
      [] analogValue = 1018 -> 3
      [] analogValue = 1019 -> -1
      [] analogValue = 1020 -> -6
      [] analogValue = 1021 -> -14

\* -------------------------------------------------------------------- store
address1(index) == eepromStartAddress + index * 4
address2(index) == address1(index) + 2

\* faulty variant: the check asks for one more record's room
InRangeStrict(addr2) == addr2 + 5 < length

\* address2 + 1 < EEPROM.length()
InRange(addr2) == addr2 + 1 < length

\* the bytes of the record at an index, and those of the persisted count
RecordBytes(index) == address1(index) .. address2(index) + 1
CountBytes == {0, 1}

\* faulty variant: the capacity test off by one
StoreHasRoomOffByOne(index) == index <= maxReadings

\* readingIndex < maxReadings
StoreHasRoom(index) == index < maxReadings

\* the record stored at an index: the two ints EEPROM.get reads there
Record(mem, index) == <<EEPROMget(mem, address1(index)), EEPROMget(mem, address2(index))>>

\* faulty variant: the threshold itself counts as anomalous
AnomalousAtThreshold(mem, index, t1, t2) ==
    /\ index > 0
    /\ \/ abs(t1 - Record(mem, index - 1)[1]) >= anomalyThreshold
       \/ abs(t2 - Record(mem, index - 1)[2]) >= anomalyThreshold

\* the anomaly check of a sample against the record before index
Anomalous(mem, index, t1, t2) ==
    /\ index > 0
    /\ \/ abs(t1 - Record(mem, index - 1)[1]) > anomalyThreshold
       \/ abs(t2 - Record(mem, index - 1)[2]) > anomalyThreshold

\* the byte writes of a successful append at index, in program order
AppendWrites(index, t1, t2) ==
    PutWrites(address1(index), t1) \o PutWrites(address2(index), t2)
        \o PutWrites(0, index + 1)

\* the erase loop after its first k byte writes
ZeroBytes(mem, k) ==
    [a \in DOMAIN mem |->
        IF a >= eepromStartAddress /\ a < eepromStartAddress + k THEN 0 ELSE mem[a]]

\* faulty variant: the erase leaves the persisted count alone
EraseAllKeepCount(mem) == ZeroBytes(mem, maxReadings * 4)

\* the erase loop followed by EEPROM.put(0, 0)
EraseAll(mem) == EEPROMput(ZeroBytes(mem, maxReadings * 4), 0, 0)

\* the index at which the replay loop, started at i, ends
RECURSIVE ScanStop(_, _)
ScanStop(index, i) ==
    IF i >= index \/ ~InRange(address2(i)) THEN i ELSE ScanStop(index, i + 1)

\* faulty variant: the replay loop stops one record early
ReplayLinesShort(mem, index) == [j \in 1 .. ScanStop(index, 0) - 1 |-> Record(mem, j - 1)]

\* the record lines the replay loop prints
ReplayLines(mem, index) == [j \in 1 .. ScanStop(index, 0) |-> Record(mem, j - 1)]

\* the bytes the replay loop reads
ReplayTouches(index) == UNION {RecordBytes(i) : i \in 0 .. ScanStop(index, 0) - 1}

\* the bytes the erase writes: the loop has no bounds check
EraseTouches ==
    (eepromStartAddress .. eepromStartAddress + maxReadings * 4 - 1) \cup CountBytes

\* faulty variant: the previous record is read before the sensors are checked
SampleTouchesReadFirst(outcome, index) ==
    LET prev == IF index > 0 THEN RecordBytes(index - 1) ELSE {}
    IN CASE outcome = "stored" -> prev \cup RecordBytes(index) \cup CountBytes
         [] OTHER -> prev

\* the bytes a sample tick reads or writes, by its outcome
SampleTouches(outcome, index) ==
    LET prev == IF index > 0 THEN RecordBytes(index - 1) ELSE {}
    IN CASE outcome = "fault" -> {}
         [] outcome = "stored" -> prev \cup RecordBytes(index) \cup CountBytes
         [] OTHER -> prev

\* highestTemp1 / highestTemp2 after the replay loop has handled records
\* 0 .. n-1: it starts at -9999
HighestTemp(mem, ch, n) ==
    LET seen == {Record(mem, i)[ch] : i \in 0 .. n - 1} \cup {-9999}
    IN CHOOSE h \in seen : \A v \in seen : h >= v

\* the sum of one channel of the records lo .. hi-1, by halves
RECURSIVE TotalBetween(_, _, _, _)
TotalBetween(mem, ch, lo, hi) ==
    IF hi <= lo THEN 0
    ELSE IF hi = lo + 1 THEN Record(mem, lo)[ch]
    ELSE LET mid == (lo + hi) \div 2
         IN TotalBetween(mem, ch, lo, mid) + TotalBetween(mem, ch, mid, hi)

\* totalTemp1 / totalTemp2 (long) after the loop has handled records 0 .. n-1
TotalTemp(mem, ch, n) == TotalBetween(mem, ch, 0, n)

\* firstTemp: set when the loop handles i = 0, else still 0
FirstTemp(mem, ch, n) == IF n > 0 THEN Record(mem, 0)[ch] ELSE 0

\* lastTemp: set when the loop handles i = index - 1, else still 0
LastTemp(mem, ch, index, n) == IF n >= index /\ index > 0 THEN Record(mem, index - 1)[ch] ELSE 0

\* what the replay prints after the loop: nothing but "No data to load." when
\* index is not positive, else the statistics; tempDiff is the temperature
\* factor of the energy specificHeatCapacityAir * massAir * tempDiff
ReplayReport(mem, index) ==
    IF index > 0
    THEN LET n == ScanStop(index, 0)
         IN << [highestTemp1 |-> HighestTemp(mem, 1, n),
                avgTemp1 |-> ToInt16(TruncDiv(TotalTemp(mem, 1, n), index)),
                tempDiff1 |-> abs(LastTemp(mem, 1, index, n) - FirstTemp(mem, 1, n)),
                highestTemp2 |-> HighestTemp(mem, 2, n),
                avgTemp2 |-> ToInt16(TruncDiv(TotalTemp(mem, 2, n), index)),
                tempDiff2 |-> abs(LastTemp(mem, 2, index, n) - FirstTemp(mem, 2, n)),
                count |-> index] >>
    ELSE << >>

\* faulty variant: a discarded reading ends the session too
StopsLoggingOnDiscard(outcome) == outcome \in {"overflow", "full", "anomalous"}

\* the outcomes of a sample tick that set logging = false
StopsLogging(outcome) == outcome \in {"overflow", "full"}

\* faulty variant: logging resumes at the old index
StartIndexKept(index) == index

\* readingIndex when logging starts, whatever it was
StartIndex(index) == 0

\* ------------------------------------------------------------------ actions
\* setup() run on the EEPROM contents mem: globals at their initialisers,
\* readingIndex read from address 0
Boot(mem) ==
    /\ eeprom' = mem
    /\ readingIndex' = EEPROMget(mem, 0)
    /\ logging' = FALSE
    /\ lastButtonState' = LOW
    /\ pressed' = FALSE
    /\ eraseMode' = FALSE
    /\ diag' = "init"
    /\ candidate' = << >>
    /\ lines' = << >>
    /\ report' = << >>
    /\ touched' = CountBytes
    /\ length' = length
    /\ appended' = << >>
    /\ known' = FALSE
    /\ sessionAppends' = 0

\* the clock at 0, both buttons up (the pins are pulled high)
TimeInit ==
    /\ now = 0
    /\ previousMillis = 0
    /\ buttonPressStartTime = 0
    /\ pc = "toggle"
    /\ polled = FALSE
    /\ togglePin = HIGH
    /\ loadPin = HIGH
    /\ loadPhase = "none"
    /\ loadDownAt = 0
    /\ loadUpAt = 0
    /\ pressErases = 0
    /\ pressReplays = 0
    /\ lastSampleAt = -1
    /\ prevSampleAt = -1
    /\ startedAt = -1

\* first boot, on zero-initialised storage
Init ==
    /\ eeprom = [a \in 0 .. EEPROMlength - 1 |-> 0]
    /\ readingIndex = 0
    /\ logging = FALSE
    /\ lastButtonState = LOW
    /\ pressed = FALSE
    /\ eraseMode = FALSE
    /\ diag = "init"
    /\ candidate = << >>
    /\ lines = << >>
    /\ report = << >>
    /\ touched = CountBytes
    /\ length = EEPROMlength
    /\ appended = << >>
    /\ known = TRUE
    /\ sessionAppends = 0
    /\ powerCycles = 0
    /\ TimeInit

\* first boot of a device of some capacity whose count cell holds some value
\* and whose other cells are zero
InitCapacity ==
    \E cap \in Capacities : \E cnt \in LoadedCounts :
        /\ eeprom = EEPROMput([a \in 0 .. cap - 1 |-> 0], 0, cnt)
        /\ readingIndex = cnt
        /\ logging = FALSE
        /\ lastButtonState = LOW
        /\ pressed = FALSE
        /\ eraseMode = FALSE
        /\ diag = "init"
        /\ candidate = << >>
        /\ lines = << >>
        /\ report = << >>
        /\ touched = CountBytes
        /\ length = cap
        /\ appended = << >>
        /\ known = (cnt = 0)
        /\ sessionAppends = 0
        /\ powerCycles = 0
        /\ TimeInit

\* power fails between two steps and the board restarts
PowerCycle ==
    /\ powerCycles < MaxPowerCycles
    /\ powerCycles' = powerCycles + 1
    /\ Boot(eeprom)

\* loop(), lines 84-98: the toggle button is read as pin
TogglePoll(pin) ==
    /\ lastButtonState' = pin
    /\ IF pin = LOW /\ lastButtonState = HIGH
       THEN /\ logging' = ~logging
            /\ IF ~logging
               THEN /\ readingIndex' = StartIndex(readingIndex)
                    /\ diag' = "started"
                    /\ appended' = << >>
                    /\ known' = TRUE
                    /\ sessionAppends' = 0
               ELSE /\ diag' = "stopped"
                    /\ UNCHANGED <<readingIndex, appended, known, sessionAppends>>
       ELSE /\ diag' = "none"
            /\ UNCHANGED <<logging, readingIndex, appended, known, sessionAppends>>
    /\ candidate' = << >>
    /\ lines' = << >>
    /\ report' = << >>
    /\ touched' = {}
    /\ UNCHANGED <<eeprom, pressed, eraseMode, length, powerCycles>>

\* loop(), lines 101-182, when a sample is due: analogRead gives a1 and a2
SampleTick(a1, a2) ==
    /\ logging
    /\ lines' = << >>
    /\ report' = << >>
    /\ UNCHANGED <<lastButtonState, pressed, eraseMode, length, known, powerCycles>>
    /\ IF a1 > 0 /\ a2 > 0
       THEN LET t1 == temperatureF(a1)
                t2 == temperatureF(a2)
            IN /\ candidate' = <<t1, t2>>
               /\ IF Anomalous(eeprom, readingIndex, t1, t2)
                  THEN /\ diag' = "anomalous"
                       /\ UNCHANGED <<eeprom, readingIndex, appended, sessionAppends>>
                  ELSE IF StoreHasRoom(readingIndex)
                  THEN IF InRange(address2(readingIndex))
                       THEN /\ eeprom' = WriteBytes(eeprom, AppendWrites(readingIndex, t1, t2), 6)
                            /\ readingIndex' = readingIndex + 1
                            /\ diag' = "stored"
                            /\ appended' = Append(appended, <<t1, t2>>)
                            /\ sessionAppends' =
                                  IF sessionAppends < MaxCounted
                                  THEN sessionAppends + 1 ELSE sessionAppends
                       ELSE /\ diag' = "overflow"
                            /\ UNCHANGED <<eeprom, readingIndex, appended, sessionAppends>>
                  ELSE /\ diag' = "full"
                       /\ UNCHANGED <<eeprom, readingIndex, appended, sessionAppends>>
       ELSE /\ diag' = "fault"
            /\ candidate' = << >>
            /\ UNCHANGED <<eeprom, readingIndex, appended, sessionAppends>>
    /\ logging' = IF StopsLogging(diag') THEN FALSE ELSE logging
    /\ touched' = SampleTouches(diag', readingIndex)

\* power fails inside the append of lines 145-148, after k of its byte
\* writes, and the board restarts
PowerLossInAppend(a1, a2, k) ==
    /\ logging
    /\ a1 > 0 /\ a2 > 0
    /\ ~Anomalous(eeprom, readingIndex, temperatureF(a1), temperatureF(a2))
    /\ StoreHasRoom(readingIndex)
    /\ InRange(address2(readingIndex))
    /\ powerCycles < MaxPowerCycles
    /\ powerCycles' = powerCycles + 1
    /\ Boot(WriteBytes(eeprom,
                       AppendWrites(readingIndex, temperatureF(a1), temperatureF(a2)), k))

\* loop(), lines 185-287: the load button is read as pin; held says whether
\* millis() - buttonPressStartTime >= eraseHoldTime
LoadPoll(pin, held) ==
    /\ candidate' = << >>
    /\ UNCHANGED <<logging, lastButtonState, length, sessionAppends, powerCycles>>
    /\ IF pin = LOW
       THEN /\ pressed' = TRUE
            /\ IF pressed /\ held /\ ~eraseMode
               THEN /\ eeprom' = EraseAll(eeprom)
                    /\ readingIndex' = 0
                    /\ eraseMode' = TRUE
                    /\ diag' = "erased"
                    /\ touched' = EraseTouches
                    /\ appended' = << >>
                    /\ known' = TRUE
               ELSE /\ eraseMode' = IF pressed THEN eraseMode ELSE FALSE
                    /\ diag' = "none"
                    /\ touched' = {}
                    /\ UNCHANGED <<eeprom, readingIndex, appended, known>>
            /\ lines' = << >>
            /\ report' = << >>
       ELSE /\ pressed' = FALSE
            /\ UNCHANGED <<eeprom, readingIndex, eraseMode, appended, known>>
            /\ IF pressed /\ ~held /\ ~eraseMode
               THEN /\ lines' = ReplayLines(eeprom, readingIndex)
                    /\ report' = ReplayReport(eeprom, readingIndex)
                    /\ touched' = ReplayTouches(readingIndex)
                    /\ diag' = IF ScanStop(readingIndex, 0) < readingIndex THEN "invalid"
                               ELSE IF readingIndex > 0 THEN "loaded" ELSE "nodata"
               ELSE /\ lines' = << >>
                    /\ report' = << >>
                    /\ touched' = {}
                    /\ diag' = "none"

\* power fails inside the erase loop of lines 194-196, after k byte writes,
\* and the board restarts
PowerLossInErase(k) ==
    /\ pressed /\ ~eraseMode
    /\ powerCycles < MaxPowerCycles
    /\ powerCycles' = powerCycles + 1
    /\ Boot(ZeroBytes(eeprom, k))

\* ------------------------------------------------------------- timed steps
\* (testDurationMinutes * 60UL * 1000UL) / maxReadings
readDelay == (testDurationMinutes * 60 * 1000) \div maxReadings

\* the difference of two unsigned long values, which wraps at 2^32
Elapsed(cur, then) == IF cur >= then THEN cur - then ELSE (cur - then) + 65536 * 65536

\* faulty variant: a sample is due a clock step early
DueEarly(cur, prev) == Elapsed(cur, prev) >= readDelay - 250

\* currentMillis - previousMillis >= readDelay
Due(cur, prev) == Elapsed(cur, prev) >= readDelay

\* millis() - buttonPressStartTime >= eraseHoldTime
Held(cur, start) == Elapsed(cur, start) >= eraseHoldTime

\* faulty variant: the next sample is due readDelay after this one was due
PreviousMillisOnSchedule(prev, cur) == prev + readDelay

\* previousMillis = currentMillis
PreviousMillisAfter(prev, cur) == cur

\* the toggle part sees a press: buttonState == LOW && lastButtonState == HIGH
ToggleEdge == togglePin = LOW /\ lastButtonState = HIGH

\* the steps of the load part that end with delay(500)
LoadDelays(outcome) == outcome \in {"erased", "loaded", "nodata", "invalid"}

\* loop(), lines 84-98, with its delay; no pass begins after the horizon
TogglePart(horizon) ==
    /\ pc = "toggle"
    /\ now <= horizon
    /\ TogglePoll(togglePin)
    /\ now' = IF ToggleEdge THEN now + debounceDelay ELSE now
    /\ pc' = "sample"
    /\ polled' = IF ToggleEdge THEN FALSE ELSE polled
    /\ startedAt' = IF ToggleEdge /\ ~logging THEN now ELSE startedAt
    /\ UNCHANGED <<previousMillis, buttonPressStartTime, togglePin, loadPin,
                   loadPhase, loadDownAt, loadUpAt, pressErases, pressReplays,
                   lastSampleAt, prevSampleAt>>

\* loop(), lines 101-182: the cadence check and, when a sample is due, the
\* sample; the return at line 135 ends the pass
SamplePart ==
    /\ pc = "sample"
    /\ IF logging /\ Due(now, previousMillis)
       THEN /\ \E r \in TimedReadings : SampleTick(r[1], r[2])
            /\ previousMillis' = PreviousMillisAfter(previousMillis, now)
            /\ lastSampleAt' = now
            /\ prevSampleAt' = lastSampleAt
            /\ pc' = IF diag' = "anomalous" THEN "toggle" ELSE "load"
       ELSE /\ pc' = "load"
            /\ UNCHANGED <<svars, previousMillis, lastSampleAt, prevSampleAt>>
    /\ UNCHANGED <<now, buttonPressStartTime, polled, togglePin, loadPin,
                   loadPhase, loadDownAt, loadUpAt, pressErases, pressReplays, startedAt>>

\* loop(), lines 185-287, with its delays
LoadPart ==
    /\ pc = "load"
    /\ LoadPoll(loadPin, Held(now, buttonPressStartTime))
    /\ buttonPressStartTime' =
          IF loadPin = LOW THEN (IF pressed THEN buttonPressStartTime ELSE now) ELSE 0
    /\ now' = IF LoadDelays(diag') THEN now + debounceDelay ELSE now
    /\ pc' = "toggle"
    /\ polled' = ~LoadDelays(diag')
    /\ pressErases' = IF diag' = "erased" /\ pressErases < 2 THEN pressErases + 1
                      ELSE pressErases
    /\ pressReplays' = IF diag' \in {"loaded", "nodata", "invalid"} /\ pressReplays < 2
                       THEN pressReplays + 1 ELSE pressReplays
    /\ loadPhase' = IF loadPin = HIGH /\ loadPhase = "released" THEN "done" ELSE loadPhase
    /\ UNCHANGED <<previousMillis, togglePin, loadPin, loadDownAt, loadUpAt,
                   lastSampleAt, prevSampleAt, startedAt>>

\* the user presses or releases the toggle button
ToggleButton ==
    /\ pc = "toggle"
    /\ togglePin' = IF togglePin = HIGH THEN LOW ELSE HIGH
    /\ polled' = FALSE
    /\ UNCHANGED <<svars, now, previousMillis, buttonPressStartTime, pc, loadPin,
                   loadPhase, loadDownAt, loadUpAt, pressErases, pressReplays,
                   lastSampleAt, prevSampleAt, startedAt>>

\* the user presses the load button, once loop() has seen the release that
\* ended the press before; not at millis() = 0, which loop() takes for "not
\* pressed"
PressLoad ==
    /\ pc = "toggle"
    /\ now > 0
    /\ loadPin = HIGH
    /\ loadPhase \in {"none", "done"}
    /\ loadPin' = LOW
    /\ loadPhase' = "down"
    /\ loadDownAt' = now
    /\ pressErases' = 0
    /\ pressReplays' = 0
    /\ polled' = FALSE
    /\ UNCHANGED <<svars, now, previousMillis, buttonPressStartTime, pc, togglePin,
                   loadUpAt, lastSampleAt, prevSampleAt, startedAt>>

\* the user releases the load button, some time after pressing it
ReleaseLoad ==
    /\ pc = "toggle"
    /\ loadPin = LOW
    /\ now > loadDownAt
    /\ loadPin' = HIGH
    /\ loadPhase' = "released"
    /\ loadUpAt' = now
    /\ polled' = FALSE
    /\ UNCHANGED <<svars, now, previousMillis, buttonPressStartTime, pc, togglePin,
                   loadDownAt, pressErases, pressReplays,
                   lastSampleAt, prevSampleAt, startedAt>>

\* the clock advances between two passes of loop()
Tick(steps, horizon) ==
    /\ pc = "toggle"
    /\ polled
    /\ \E dt \in steps : now' = now + dt
    /\ now' <= horizon
    /\ polled' = FALSE
    /\ UNCHANGED <<svars, previousMillis, buttonPressStartTime, pc, togglePin, loadPin,
                   loadPhase, loadDownAt, loadUpAt, pressErases, pressReplays,
                   lastSampleAt, prevSampleAt, startedAt>>

\* ----------------------------------------------------------- specifications
\* the slot the next append would fill has never been written
SlotBlank(mem, index) ==
    IF index >= maxReadings \/ ~InRange(address2(index)) THEN TRUE
    ELSE \A a \in RecordBytes(index) : mem[a] = 0

SampleDue == SlotBlank(eeprom, readingIndex) \/ readingIndex < MaxOverwrite

\* long sessions, two sensor levels
Next ==
    \/ PowerCycle /\ UNCHANGED tvars
    \/ \E pin \in {LOW, HIGH} : TogglePoll(pin) /\ UNCHANGED tvars
    \/ \E r \in Readings : SampleDue /\ SampleTick(r[1], r[2]) /\ UNCHANGED tvars
    \/ \E r \in Readings : \E k \in AppendCuts :
          SampleDue /\ PowerLossInAppend(r[1], r[2], k) /\ UNCHANGED tvars
    \/ \E pin \in {LOW, HIGH} : \E held \in BOOLEAN : LoadPoll(pin, held) /\ UNCHANGED tvars
    \/ \E k \in 1 .. MaxEraseCut : PowerLossInErase(k) /\ UNCHANGED tvars

Spec == Init /\ [][Next]_vars

FilterSampleDue == SampleDue /\ readingIndex < MaxFilterIndex

\* short sessions, three sensor levels ten and eleven degrees apart
NextFilter ==
    \/ PowerCycle /\ UNCHANGED tvars
    \/ \E pin \in {LOW, HIGH} : TogglePoll(pin) /\ UNCHANGED tvars
    \/ \E r \in FilterReadings : FilterSampleDue /\ SampleTick(r[1], r[2]) /\ UNCHANGED tvars
    \/ \E r \in FilterReadings : \E k \in AppendCuts :
          FilterSampleDue /\ PowerLossInAppend(r[1], r[2], k) /\ UNCHANGED tvars
    \/ \E pin \in {LOW, HIGH} : \E held \in BOOLEAN : LoadPoll(pin, held) /\ UNCHANGED tvars
    \/ \E k \in 1 .. MaxEraseCut : PowerLossInErase(k) /\ UNCHANGED tvars

SpecFilter == Init /\ [][NextFilter]_vars

\* short sessions, sensor levels around zero degrees
NextReport ==
    \/ PowerCycle /\ UNCHANGED tvars
    \/ \E pin \in {LOW, HIGH} : TogglePoll(pin) /\ UNCHANGED tvars
    \/ \E r \in ReportReadings : FilterSampleDue /\ SampleTick(r[1], r[2]) /\ UNCHANGED tvars
    \/ \E r \in ReportReadings : \E k \in AppendCuts :
          FilterSampleDue /\ PowerLossInAppend(r[1], r[2], k) /\ UNCHANGED tvars
    \/ \E pin \in {LOW, HIGH} : \E held \in BOOLEAN : LoadPoll(pin, held) /\ UNCHANGED tvars
    \/ \E k \in 1 .. MaxEraseCut : PowerLossInErase(k) /\ UNCHANGED tvars

SpecReport == Init /\ [][NextReport]_vars

\* one run of the program without power failure, in which a due sample is
\* eventually taken: loop() runs again and again
SampleStep == \E r \in Readings : SampleDue /\ SampleTick(r[1], r[2]) /\ UNCHANGED tvars

NextLive ==
    \/ \E pin \in {LOW, HIGH} : TogglePoll(pin) /\ UNCHANGED tvars
    \/ SampleStep
    \/ \E pin \in {LOW, HIGH} : \E held \in BOOLEAN : LoadPoll(pin, held) /\ UNCHANGED tvars

SpecLive == Init /\ [][NextLive]_vars /\ WF_vars(SampleStep)

\* one run of the program with its clock
NextTime ==
    \/ TogglePart(MaxTime)
    \/ SamplePart
    \/ LoadPart
    \/ ToggleButton
    \/ PressLoad
    \/ ReleaseLoad
    \/ Tick(TimeSteps, MaxTime)

SpecTime == Init /\ [][NextTime]_vars

\* the same on a coarser clock, long enough for a press of eraseHoldTime
NextHold ==
    \/ TogglePart(MaxHoldTime)
    \/ SamplePart
    \/ LoadPart
    \/ ToggleButton
    \/ PressLoad
    \/ ReleaseLoad
    \/ Tick(HoldSteps, MaxHoldTime)

SpecHold == Init /\ [][NextHold]_vars

\* short sessions on devices of two capacities, booted with a count that may
\* be corrupted
NextCapacity ==
    \/ PowerCycle /\ UNCHANGED tvars
    \/ \E pin \in {LOW, HIGH} : TogglePoll(pin) /\ UNCHANGED tvars
    \/ \E r \in Readings : FilterSampleDue /\ SampleTick(r[1], r[2]) /\ UNCHANGED tvars
    \/ \E r \in Readings : \E k \in AppendCuts :
          FilterSampleDue /\ PowerLossInAppend(r[1], r[2], k) /\ UNCHANGED tvars
    \/ \E pin \in {LOW, HIGH} : \E held \in BOOLEAN : LoadPoll(pin, held) /\ UNCHANGED tvars
    \/ \E k \in 1 .. MaxEraseCut : PowerLossInErase(k) /\ UNCHANGED tvars

SpecCapacity == InitCapacity /\ [][NextCapacity]_vars

\* the count a restart would load
persisted == EEPROMget(eeprom, 0)

\* ------------------------------------------------------------------- claims
\* C1: the in-memory record count and the persisted count are always
\* between 0 and maxReadings.
C1_CountInBounds ==
    /\ readingIndex \in 0 .. maxReadings
    /\ persisted \in 0 .. maxReadings

\* the store has just been filled to maxReadings
C1_Witness == diag = "stored" /\ readingIndex = maxReadings /\ persisted = maxReadings

C3_FilterDecision ==
    [][candidate' # << >> =>
        ((diag' # "anomalous") <=>
            \/ readingIndex = 0
            \/ /\ abs(candidate'[1] - Record(eeprom, readingIndex - 1)[1]) <= 10
               /\ abs(candidate'[2] - Record(eeprom, readingIndex - 1)[2]) <= 10)]_vars

\* a sample 11 off in one channel has been rejected against a record that
\* was itself accepted exactly 10 off its predecessor
C3_Witness ==
    /\ diag = "anomalous" /\ readingIndex >= 2
    /\ abs(candidate[1] - Record(eeprom, readingIndex - 1)[1]) = 11
    /\ candidate[2] = Record(eeprom, readingIndex - 1)[2]
    /\ abs(Record(eeprom, readingIndex - 1)[1] - Record(eeprom, readingIndex - 2)[1]) = 10
    /\ appended = <<Record(eeprom, 0), Record(eeprom, 1)>>

\* the records a replay would print after a restart on the EEPROM contents mem
Visible(mem) == ReplayLines(mem, EEPROMget(mem, 0))

\* C4: every stored record below the count is within 10 of its predecessor
\* in both channels, also after a power loss and restart.
C4_NeighboursWithinThreshold ==
    \A i \in 1 .. readingIndex - 1 :
        /\ abs(Record(eeprom, i)[1] - Record(eeprom, i - 1)[1]) <= 10
        /\ abs(Record(eeprom, i)[2] - Record(eeprom, i - 1)[2]) <= 10

\* C5: after a power loss inside an append, a restart sees the store either
\* as it was before the append or as it is after the completed append.
C5_AppendAllOrNothing ==
    [][\A r \in Readings : \A k \in AppendCuts :
          PowerLossInAppend(r[1], r[2], k) =>
              Visible(eeprom') \in
                  { Visible(eeprom),
                    ReplayLines(eeprom, readingIndex),
                    Visible(WriteBytes(eeprom,
                        AppendWrites(readingIndex, temperatureF(r[1]), temperatureF(r[2])),
                        6)) }]_vars

\* C6: a replay after a restart prints the same records as a replay just
\* before it.
C6_ReplaySurvivesRestart == ReplayLines(eeprom, readingIndex) = Visible(eeprom)

\* C7: between the start of logging and the first append both the in-memory
\* count and the persisted count are 0.
C7_StartResetsBothCounts ==
    (logging /\ sessionAppends = 0) => (readingIndex = 0 /\ persisted = 0)

\* C8 as stated: after logging starts, the first sample without sensor fault
\* is stored at index 0 unfiltered and leaves the count at 1, and the n-th
\* successful append since logging started is stored at index n-1.
C8_NthAppendOfSession ==
    [][/\ (logging /\ sessionAppends = 0 /\ candidate' # << >>) =>
              (diag' = "stored" /\ readingIndex' = 1 /\ Record(eeprom', 0) = candidate')
       /\ (diag' = "stored" /\ sessionAppends < MaxCounted) =>
              (readingIndex = sessionAppends /\ Record(eeprom', sessionAppends) = candidate')
      ]_vars

\* C8 as amended: the same, with appends counted since logging started or,
\* if the store was erased after that, since the erase.
C8_NthAppendSinceStartOrErase ==
    [][/\ (logging /\ appended = << >> /\ candidate' # << >>) =>
              (diag' = "stored" /\ readingIndex' = 1 /\ Record(eeprom', 0) = candidate')
       /\ diag' = "stored" =>
              /\ readingIndex = Len(appended)
              /\ readingIndex' = Len(appended')
              /\ Record(eeprom', Len(appended)) = candidate'
      ]_vars

\* logging restarted on a full store and the first sample, 21 degrees off the
\* old record 0, was stored at index 0
C8_Witness ==
    /\ diag = "stored" /\ readingIndex = 1 /\ Len(appended) = 1
    /\ Record(eeprom, maxReadings - 1) # <<0, 0>>
    /\ abs(Record(eeprom, 0)[1] - Record(eeprom, 1)[1]) > anomalyThreshold

\* C9: a sample that passes the fault check and the filter while the count
\* is maxReadings writes nothing, leaves both counts at maxReadings and
\* stops logging.
C9_FullStoreStops ==
    [][(readingIndex = maxReadings /\ candidate' # << >> /\ diag' # "anomalous") =>
          /\ diag' = "full"
          /\ eeprom' = eeprom
          /\ readingIndex' = maxReadings
          /\ EEPROMget(eeprom', 0) = maxReadings
          /\ ~logging']_vars

\* logging has just been stopped by a sample arriving at a full store
C9_Witness == diag = "full" /\ ~logging /\ readingIndex = maxReadings /\ candidate # << >>

\* the record region is zero and both counts are 0
Blank(mem, index) ==
    /\ \A a \in eepromStartAddress .. eepromStartAddress + maxReadings * 4 - 1 : mem[a] = 0
    /\ index = 0
    /\ EEPROMget(mem, 0) = 0

\* C10: erase leaves the record region zero and both counts 0; until an
\* append writes again the store stays so, and a replay then prints no
\* record line and reports no data.
C10_EraseBlanksStore ==
    [][/\ diag' = "erased" => Blank(eeprom', readingIndex')
       /\ (Blank(eeprom, readingIndex) /\ eeprom' = eeprom) => readingIndex' = 0
       /\ (Blank(eeprom, readingIndex) /\ diag' \in {"loaded", "nodata"}) =>
              (diag' = "nodata" /\ lines' = << >>)
      ]_vars

\* a store holding records has just been erased while logging
C10_Witness ==
    /\ diag = "erased" /\ logging /\ sessionAppends > 0
    /\ Blank(eeprom, readingIndex)

\* the values of one channel in the records 0 .. n-1
Channel(mem, ch, n) == [i \in 0 .. n - 1 |-> Record(mem, i)[ch]]

\* f[lo] + ... + f[hi - 1], by halves
RECURSIVE SumBetween(_, _, _)
SumBetween(f, lo, hi) ==
    IF hi <= lo THEN 0
    ELSE IF hi = lo + 1 THEN f[lo]
    ELSE LET mid == (lo + hi) \div 2
         IN SumBetween(f, lo, mid) + SumBetween(f, mid, hi)

\* f[0] + ... + f[n - 1]
Sum(f, n) == SumBetween(f, 0, n)

\* q is total divided by n, rounded towards zero
IsTruncatedQuotient(q, total, n) ==
    \E r \in -(n - 1) .. n - 1 :
        /\ q * n + r = total
        /\ total >= 0 => r >= 0
        /\ total <= 0 => r <= 0

\* the statistics st are those of channel ch of the records 0 .. n-1
ChannelAgrees(mem, ch, n, highest, avg, diff) ==
    LET f == Channel(mem, ch, n)
    IN /\ \E i \in 0 .. n - 1 : highest = f[i]
       /\ \A i \in 0 .. n - 1 : highest >= f[i]
       /\ IsTruncatedQuotient(avg, Sum(f, n), n)
       /\ diff = abs(f[n - 1] - f[0])

\* C11: a replay of an empty store reports no data and no statistics; a
\* replay of 1..60 records reports per channel the maximum, the sum divided
\* by the count rounded towards zero, and |last - first| as the temperature
\* factor of the energy.
C11_ReportStatistics ==
    diag \in {"loaded", "nodata", "invalid"} =>
        /\ readingIndex = 0 => (diag = "nodata" /\ report = << >>)
        /\ readingIndex \in 1 .. maxReadings =>
              /\ diag = "loaded"
              /\ Len(report) = 1
              /\ report[1].count = readingIndex
              /\ ChannelAgrees(eeprom, 1, readingIndex, report[1].highestTemp1,
                               report[1].avgTemp1, report[1].tempDiff1)
              /\ ChannelAgrees(eeprom, 2, readingIndex, report[1].highestTemp2,
                               report[1].avgTemp2, report[1].tempDiff2)

\* a replay of the records (-1,-1), (-6,-1): the average of channel 1 is
\* -7 / 2 = -3
C11_Witness ==
    /\ diag = "loaded"
    /\ lines = << <<-1, -1>>, <<-6, -1>> >>
    /\ report[1].avgTemp1 = -3
    /\ report[1].highestTemp1 = -1
    /\ report[1].tempDiff1 = 5

\* C12: whatever the capacity of the device, no step reads or writes an
\* EEPROM byte address at or beyond it.
C12_AccessWithinCapacity == \A a \in touched : a >= 0 /\ a < length

\* C13: once an append has brought the count to maxReadings, logging
\* eventually stops, whatever the later readings are.
C13_FullStoreEndsSession ==
    (logging /\ diag = "stored" /\ readingIndex = maxReadings) ~> ~logging

\* C14: while the program runs, logging stops only by a toggle press, by an
\* append that fails the byte-range check or by an accepted sample that finds
\* the store full; a sensor fault, a rejected sample, a replay and an erase
\* leave logging as it is.
C14_SessionEndsOnlyBy ==
    [][/\ (logging /\ ~logging' /\ powerCycles' = powerCycles) =>
              \/ diag' = "stopped"
              \/ diag' = "overflow" /\ ~InRange(address2(readingIndex))
              \/ diag' = "full" /\ readingIndex = maxReadings /\ candidate' # << >>
       /\ diag' \in {"fault", "anomalous", "loaded", "nodata", "invalid", "erased"} =>
              logging' = logging
      ]_vars

\* a sample was rejected while the store is full, and logging goes on
C14_Witness ==
    /\ logging /\ diag = "anomalous" /\ readingIndex = maxReadings
    /\ candidate = <<156, 156>>

\* the bytes of the record region
RecordRegion == eepromStartAddress .. eepromStartAddress + maxReadings * 4 - 1

\* C15: a sample tick with a sensor fault, a sample tick whose reading is
\* rejected and a replay leave the record region, both counts and the logging
\* flag as they are; a tick with a sensor fault does not read the previous
\* record.
C15_SkippedTickAndReplayKeepStore ==
    [][/\ diag' \in {"fault", "anomalous", "loaded", "nodata", "invalid"} =>
              /\ \A a \in RecordRegion : eeprom'[a] = eeprom[a]
              /\ readingIndex' = readingIndex
              /\ EEPROMget(eeprom', 0) = EEPROMget(eeprom, 0)
              /\ logging' = logging
       /\ diag' = "fault" => touched' = {}
      ]_vars

\* a tick with a sensor fault while records are stored
C15_Witness ==
    /\ diag = "fault" /\ logging /\ readingIndex > 1
    /\ touched = {} /\ Record(eeprom, readingIndex - 1) = <<177, 156>>

\* the first record index whose last byte lies at or beyond the capacity
FirstOutOfRange ==
    CHOOSE i \in 0 .. length :
        /\ eepromStartAddress + i * 4 + 3 >= length
        /\ \A j \in 0 .. i - 1 : eepromStartAddress + j * 4 + 3 < length

\* C16: when the count is so large that some index below it lies outside the
\* device, a replay prints the records before the first such index, each as
\* stored, then breaks off with "Invalid EEPROM address." and prints no
\* further record line.
C16_ReplayBreaksOffAtCapacity ==
    [][(diag' \in {"loaded", "nodata", "invalid"} /\ readingIndex > FirstOutOfRange) =>
          /\ diag' = "invalid"
          /\ Len(lines') = FirstOutOfRange
          /\ \A j \in 1 .. Len(lines') : lines'[j] = Record(eeprom, j - 1)
      ]_vars

\* a replay on the small device that loaded a count of 5 after a power loss:
\* it printed the two records that fit, the first one written before the loss
C16_Witness ==
    /\ diag = "invalid" /\ length = SmallLength /\ readingIndex = 5
    /\ Len(lines) = 2 /\ lines[1] # <<0, 0>>

\* the values of one channel in the record lines just printed
LineChannel(ch) == [i \in 0 .. Len(lines) - 1 |-> lines[i + 1][ch]]

\* C20: the statistics a replay prints agree with the record lines it
\* printed: the count is the number of lines, each average is the sum of the
\* printed values divided by the number of lines, rounded towards zero, and
\* the energy uses the last printed line as 'last'; also when the replay
\* broke off early.
C20_ReportAgreesWithLines ==
    report # << >> =>
        /\ Len(lines) > 0
        /\ report[1].count = Len(lines)
        /\ IsTruncatedQuotient(report[1].avgTemp1, Sum(LineChannel(1), Len(lines)), Len(lines))
        /\ IsTruncatedQuotient(report[1].avgTemp2, Sum(LineChannel(2), Len(lines)), Len(lines))
        /\ report[1].tempDiff1 = abs(lines[Len(lines)][1] - lines[1][1])
        /\ report[1].tempDiff2 = abs(lines[Len(lines)][2] - lines[1][2])

\* C17: a press of the load button that lasts at least eraseHoldTime causes
\* exactly one erase and no replay; a shorter press causes exactly one replay
\* and no erase.
C17_HoldErasesTapReplays ==
    loadPhase = "done" =>
        IF loadUpAt - loadDownAt >= eraseHoldTime
        THEN pressErases = 1 /\ pressReplays = 0
        ELSE pressReplays = 1 /\ pressErases = 0

\* a step that attempts a sample
Attempted == lastSampleAt' # lastSampleAt

\* C18: no sample is taken while a debounce wait lets time pass; a sample that
\* is due while logging is taken at the next cadence check, before the clock
\* advances other than by a debounce wait, and the next sample is due
\* readDelay after the time at which it was taken, however late that was.
C18_LateSampleShiftsCadence ==
    [][ /\ now' # now => ~Attempted /\ previousMillis' = previousMillis
        /\ logging /\ Due(now, previousMillis) /\ now' # now
              => now' = now + debounceDelay /\ pc' # pc
        /\ pc = "sample" /\ logging /\ Due(now, previousMillis)
              => Attempted /\ now' = now
        /\ Attempted => previousMillis' = now /\ ~Due(now + readDelay - 1, previousMillis')
      ]_vars

\* a sample of a running session taken late, after a debounce wait
C18_Witness ==
    /\ logging
    /\ prevSampleAt > startedAt
    /\ lastSampleAt - prevSampleAt > readDelay
    /\ previousMillis = lastSampleAt
    /\ now = lastSampleAt

\* C19: a sample is attempted only at the cadence check and only while
\* logging, exactly when previousMillis is at least readDelay old; two
\* successive attempts are at least readDelay apart; starting a session
\* leaves previousMillis as it is.
C19_AttemptsAtLeastReadDelayApart ==
    [][ /\ Attempted => /\ logging
                        /\ pc = "sample"
                        /\ lastSampleAt' = now
                        /\ lastSampleAt >= 0 => lastSampleAt' - lastSampleAt >= readDelay
        /\ lastSampleAt >= 0 => previousMillis = lastSampleAt
        /\ pc = "sample" /\ logging => (Attempted <=> now - previousMillis >= readDelay)
        /\ ~logging /\ logging' => previousMillis' = previousMillis /\ ~Attempted
      ]_vars

\* the first sample of a restarted session, held back until the last attempt
\* of the session before was readDelay old
C19_Witness ==
    /\ logging
    /\ prevSampleAt >= 0
    /\ prevSampleAt < startedAt
    /\ lastSampleAt = prevSampleAt + readDelay
    /\ lastSampleAt > startedAt + debounceDelay
    /\ now = lastSampleAt

====
